---- MODULE Spec2Model ----
(***************************************************************************)
(* Instance generators for the capacitated single-item lot-sizing problem  *)
(* (src/CSILSPGenerator.py): the classes Generator, GeneratorTW_CS and     *)
(* GeneratorTW_NCS, and the module-wide random source they share.          *)
(*                                                                         *)
(* The random source is modelled by the stream of raw outputs it is going  *)
(* to return: rng is that stream, and a draw consumes its head.            *)
(* rd.seed(v) replaces the stream by one that depends on v alone.          *)
(* generate() is one action: sampling, (NCS) pruning, repair, aggregation. *)
(* The loops are RECURSIVE operators that visit the iterations in the      *)
(* order of the code; the intermediate values they go through are kept in  *)
(* the history fields Clog (capacity after each repair iteration) and zlog *)
(* (the pairs of windows compared at each zeroing step).                   *)
(***************************************************************************)
EXTENDS Integers, Sequences, FiniteSets, TLC

VARIABLES gen, rng, pending

vars == <<gen, rng, pending>>

\* Bounds of the model: the longest horizon, the number of raw outputs of an
\* unseeded source that differ from 0, the largest seed; and, for the runs
\* that vary the window draws alone, the longest horizon and the number of
\* window draws that differ from 0.
MaxT == 4
MaxVaried == 2
MaxSeed == 1
MaxWinT == 6
MaxActive == 3

\* Raw outputs of the source, and the bound pairs (lower, upper) the calls
\* are made with; <<1, 0>> is an invalid pair.
RawValues == {0, 1}

BoundPairs == {<<0, 0>>, <<0, 1>>, <<1, 2>>, <<1, 0>>}

Variants == {"Base", "CS", "NCS"}

Empty == << >>

----------------------------------------------------------------------------
\* Index structures, in the iteration order of the code.

Periods(T) == 0..(T - 1)

Windows(T) == {w \in Periods(T) \X Periods(T) : w[1] <= w[2]}

\* Keys of d_w in insertion order: for i in range(T) for j in range(i,T).
RECURSIVE WindowSeq(_, _)
WindowSeq(i, T) ==
    IF i >= T THEN << >>
    ELSE [n \in 1..(T - i) |-> <<i, i + n - 1>>] \o WindowSeq(i + 1, T)

\* Intervals <<t1,t2>> in scan order: for t2 in range(T): for t1 in range(t2+1).
RECURSIVE IntervalSeq(_, _)
IntervalSeq(t2, T) ==
    IF t2 >= T THEN << >>
    ELSE [n \in 1..(t2 + 1) |-> <<n - 1, t2>>] \o IntervalSeq(t2 + 1, T)

\* Position (from 1) of window <<i,j>>, i < j, among the windows that draw a
\* random value, in insertion order.
OffDiagRank(w, T) ==
    w[1] * (T - 1) - ((w[1] * (w[1] - 1)) \div 2) + (w[2] - w[1])

NumOffDiag(T) == (T * (T - 1)) \div 2

\* Number of rd.randint calls of one completed generate().
Needed(variant, T) ==
    IF variant = "Base" THEN 5 * T ELSE 4 * T + NumOffDiag(T)

----------------------------------------------------------------------------
\* The random source.

\* rd.randint(a, b) when the source's next raw output is r (a <= b).
randint(a, b, r) == a + (r % (b - a + 1))

\* { i : rd.randint(a,b) for i in range(T) }, drawing tape[off+1..off+T].
SampleVec(T, a, b, tape, off) ==
    [i \in Periods(T) |-> randint(a, b, tape[off + i + 1])]

\* Faulty variant of SampleDw: the condition "if i != j else 0" is dropped, so
\* a window (i,i) gets a value of [dw_a, dw_b] as well.
SampleDwNoDiagonal(T, dw_a, dw_b, tape, off) ==
    [w \in Windows(T) |->
        IF w[1] # w[2] THEN randint(dw_a, dw_b, tape[off + OffDiagRank(w, T)])
        ELSE dw_b]

\* { (i,j) : (rd.randint(dw_a,dw_b) if i != j else 0) ... }
SampleDw(T, dw_a, dw_b, tape, off) ==
    [w \in Windows(T) |->
        IF w[1] # w[2] THEN randint(dw_a, dw_b, tape[off + OffDiagRank(w, T)])
        ELSE 0]

Drop(tape, n) == [i \in 1..(Len(tape) - n) |-> tape[i + n]]

\* Seed arguments: None, or an integer.
SeedArgs ==
    {[isNone |-> TRUE, n |-> 0]} \cup {[isNone |-> FALSE, n |-> k] : k \in 0..MaxSeed}

\* Python truthiness of a seed argument: None and 0 are falsy.
Truthy(v) == ~v.isNone /\ v.n # 0

\* pending: was the last call on the source's clients a seed(v), and its v.
NoSeed == [called |-> FALSE, v |-> [isNone |-> TRUE, n |-> 0]]

SeedCalled(v) == [called |-> TRUE, v |-> v]

\* The i-th raw output of the source after it was seeded with n.
Raw(n, i) == (((n + i) * (n + i + 1)) \div 2 + (i * i) \div (n + 1) + n) % 2

StreamOf(n, len) == [i \in 1..len |-> Raw(n, i)]

\* The streams an unseeded source may be about to return: at most MaxVaried
\* of the raw outputs differ from 0.
RECURSIVE TapesK(_, _)
TapesK(n, k) ==
    IF n = 0 THEN {<< >>}
    ELSE {Append(s, 0) : s \in TapesK(n - 1, k)}
         \cup (IF k = 0 THEN {}
               ELSE {Append(s, r) : s \in TapesK(n - 1, k - 1), r \in RawValues \ {0}})

Tapes(n) == TapesK(n, MaxVaried)

----------------------------------------------------------------------------
\* Arithmetic helpers (gb.quicksum(...).getValue()).

RECURSIVE SumRange(_, _, _)
SumRange(f, lo, hi) == IF lo > hi THEN 0 ELSE f[lo] + SumRange(f, lo + 1, hi)

\* sum of d_w[k,l] for l in range(k, t2+1)
RECURSIVE SumRow(_, _, _, _)
SumRow(dw, k, l, t2) == IF l > t2 THEN 0 ELSE dw[<<k, l>>] + SumRow(dw, k, l + 1, t2)

\* sum of d_w[k,l] for k in range(t1,t2+1) for l in range(k,t2+1)
RECURSIVE SumWin(_, _, _)
SumWin(dw, t1, t2) ==
    IF t1 > t2 THEN 0 ELSE SumRow(dw, t1, t1, t2) + SumWin(dw, t1 + 1, t2)

\* sum of d_w[t1,t] for t1 in range(t+1)
RECURSIVE SumCol(_, _, _)
SumCol(dw, t1, t) == IF t1 > t THEN 0 ELSE dw[<<t1, t>>] + SumCol(dw, t1 + 1, t)

----------------------------------------------------------------------------
\* Base repair (Generator.generate, the nested loop over t and k).

\* Faulty variant of BaseRepairStep: the check is reversed, C[k] > d[k].
BaseRepairStepReversed(C, d, k) ==
    IF C[k] > d[k] THEN [j \in DOMAIN C |-> IF j = k THEN C[k] + d[k] ELSE C[j]] ELSE C

\* Faulty variant of BaseRepairStep: the check is not strict, C[k] <= d[k], so
\* a period with C[k] = d[k] is inflated although it is feasible.
BaseRepairStepNonStrict(C, d, k) ==
    IF C[k] <= d[k] THEN [j \in DOMAIN C |-> IF j = k THEN C[k] + d[k] ELSE C[j]] ELSE C

\* One iteration of the inner loop, for period k.
BaseRepairStep(C, d, k) ==
    IF C[k] < d[k] THEN [j \in DOMAIN C |-> IF j = k THEN C[k] + d[k] ELSE C[j]] ELSE C

\* The loop from iteration n on; log holds the capacity after every iteration.
\* (The accumulator is bound to its value once per iteration: lg \in {log}.)
RECURSIVE BaseRepair(_, _, _, _)
BaseRepair(log, d, ivs, n) ==
    IF n > Len(ivs) THEN log
    ELSE CHOOSE r \in
           {BaseRepair(Append(lg, BaseRepairStep(lg[Len(lg)], d, ivs[n][1])),
                       d, ivs, n + 1) : lg \in {log}} : TRUE

----------------------------------------------------------------------------
\* Pruning of strictly included windows (GeneratorTW_NCS.generate).

\* Faulty variant of Acceptable: "or" for the first "and".
AcceptableLoose(w1, w2) ==
    (w1[1] <= w2[1] \/ w1[2] <= w2[2]) \/ (w1[1] >= w2[1] /\ w1[2] >= w2[2])

\* The test of the code for "window (t3,t4) is not strictly included".
Acceptable(w1, w2) ==
    (w1[1] <= w2[1] /\ w1[2] <= w2[2]) \/ (w1[1] >= w2[1] /\ w1[2] >= w2[2])

\* Faulty variant of PruneStep: zeroes the window of the outer loop, (t1,t2).
PruneStepOuter(st, w1, w2) ==
    IF st.dw[w1] # 0 /\ st.dw[w2] # 0 /\ ~Acceptable(w1, w2)
    THEN [dw |-> [w \in DOMAIN st.dw |-> IF w = w1 THEN 0 ELSE st.dw[w]],
          zlog |-> Append(st.zlog, <<w1, w2>>)]
    ELSE st

\* Body of the inner loop for the pair (ws[x], ws[y]); st = [dw, zlog].
PruneStep(st, w1, w2) ==
    IF st.dw[w1] # 0 /\ st.dw[w2] # 0 /\ ~Acceptable(w1, w2)
    THEN [dw |-> [w \in DOMAIN st.dw |-> IF w = w2 THEN 0 ELSE st.dw[w]],
          zlog |-> Append(st.zlog, <<w1, w2>>)]
    ELSE st

\* for t3,t4 in self.d_w, from the y-th key on.
RECURSIVE PruneInner(_, _, _, _)
PruneInner(st, ws, x, y) ==
    IF y > Len(ws) THEN st
    ELSE CHOOSE r \in
           {PruneInner(PruneStep(v, ws[x], ws[y]), ws, x, y + 1) : v \in {st}} : TRUE

\* for t1,t2 in self.d_w, from the x-th key on.
RECURSIVE PruneOuter(_, _, _)
PruneOuter(st, ws, x) ==
    IF x > Len(ws) THEN st
    ELSE CHOOSE r \in
           {PruneOuter(PruneInner(v, ws, x, 1), ws, x + 1) : v \in {st}} : TRUE

Prune(dw, T) == PruneOuter([dw |-> dw, zlog |-> << >>], WindowSeq(0, T), 1)

----------------------------------------------------------------------------
\* Interval repair (GeneratorTW_CS.generate and GeneratorTW_NCS.generate).

\* Faulty variant of TWRepairStep: the demand of the interval leaves out the
\* windows that end at t2 (range(k, t2) for range(k, t2+1)).
TWRepairStepShort(C, dw, t1, t2) ==
    LET sum_C == SumRange(C, t1, t2)
        sum_k_l == SumWin(dw, t1, t2 - 1)
    IN  IF sum_C < sum_k_l
        THEN [k \in DOMAIN C |-> IF t1 <= k /\ k <= t2 THEN C[k] + sum_k_l ELSE C[k]]
        ELSE C

\* Faulty variant of TWRepairStep: "-=" for "+=".
TWRepairStepMinus(C, dw, t1, t2) ==
    LET sum_C == SumRange(C, t1, t2)
        sum_k_l == SumWin(dw, t1, t2)
    IN  IF sum_C < sum_k_l
        THEN [k \in DOMAIN C |-> IF t1 <= k /\ k <= t2 THEN C[k] - sum_k_l ELSE C[k]]
        ELSE C

\* Body of the loop for the interval [t1,t2].
TWRepairStep(C, dw, t1, t2) ==
    LET sum_C == SumRange(C, t1, t2)
        sum_k_l == SumWin(dw, t1, t2)
    IN  IF sum_C < sum_k_l
        THEN [k \in DOMAIN C |-> IF t1 <= k /\ k <= t2 THEN C[k] + sum_k_l ELSE C[k]]
        ELSE C

\* The scan from the n-th interval on; log holds the capacity after every
\* iteration.
RECURSIVE TWRepair(_, _, _, _)
TWRepair(log, dw, ivs, n) ==
    IF n > Len(ivs) THEN log
    ELSE CHOOSE r \in
           {TWRepair(Append(lg, TWRepairStep(lg[Len(lg)], dw, ivs[n][1], ivs[n][2])),
                     dw, ivs, n + 1) : lg \in {log}} : TRUE

\* Faulty variant of Aggregate: sums the windows that start at t, d_w[t,t2].
AggregateByStart(dw, T) == [t \in Periods(T) |-> SumRow(dw, t, t, T - 1)]

\* self.d = { t : sum of d_w[t1,t] for t1 in range(t+1) }
Aggregate(dw, T) == [t \in Periods(T) |-> SumCol(dw, 0, t)]

----------------------------------------------------------------------------
\* The datasets.

\* An instance after __init__: no dataset attribute exists yet.
NewInstance(variant, T) ==
    [variant |-> variant, T |-> T, done |-> FALSE,
     h |-> Empty, p |-> Empty, s |-> Empty, d |-> Empty, C |-> Empty, d_w |-> Empty,
     C0 |-> Empty, dw0 |-> Empty, Clog |-> Empty, zlog |-> Empty,
     by |-> [seed |-> NoSeed, a |-> 0, b |-> 0, dw_a |-> 0, dw_b |-> 0]]

\* Generator.generate(a, b) on instance g, the source about to return tape.
GenerateBase(g, a, b, tape, by) ==
    LET T == g.T
        d == SampleVec(T, a, b, tape, 3 * T)
        C0 == SampleVec(T, a, b, tape, 4 * T)
        log == BaseRepair(<<C0>>, d, IntervalSeq(0, T), 1)
    IN  [g EXCEPT !.done = TRUE,
                  !.h = SampleVec(T, a, b, tape, 0),
                  !.p = SampleVec(T, a, b, tape, T),
                  !.s = SampleVec(T, a, b, tape, 2 * T),
                  !.d = d, !.C = log[Len(log)],
                  !.C0 = C0, !.Clog = log, !.by = by]

\* GeneratorTW_CS.generate / GeneratorTW_NCS.generate on instance g.
GenerateTW(g, a, b, dw_a, dw_b, tape, by) ==
    LET T == g.T
        dw0 == SampleDw(T, dw_a, dw_b, tape, 3 * T)
        pr == IF g.variant = "NCS" THEN Prune(dw0, T) ELSE [dw |-> dw0, zlog |-> << >>]
        C0 == SampleVec(T, a, b, tape, 3 * T + NumOffDiag(T))
        log == TWRepair(<<C0>>, pr.dw, IntervalSeq(0, T), 1)
    IN  [g EXCEPT !.done = TRUE,
                  !.h = SampleVec(T, a, b, tape, 0),
                  !.p = SampleVec(T, a, b, tape, T),
                  !.s = SampleVec(T, a, b, tape, 2 * T),
                  !.d_w = pr.dw, !.C = log[Len(log)],
                  !.d = Aggregate(pr.dw, T),
                  !.C0 = C0, !.dw0 = dw0, !.Clog = log, !.zlog = pr.zlog, !.by = by]

\* What the caller can read of an instance.
Dataset(g) == [h |-> g.h, p |-> g.p, s |-> g.s, d |-> g.d, C |-> g.C, d_w |-> g.d_w]

----------------------------------------------------------------------------
\* Operations.

\* Does the call draw from [dw_a, dw_b] at all?
DrawsWindows(g) == g.variant # "Base" /\ g.T >= 2

\* The call that produced a dataset: its arguments, and the seed(v) call
\* that came right before it, if any.
Provenance(a, b, dw_a, dw_b) ==
    [seed |-> pending, a |-> a, b |-> b, dw_a |-> dw_a, dw_b |-> dw_b]

\* generate() runs to completion.
Generate(i, a, b, dw_a, dw_b) ==
    LET g == gen[i] IN
    /\ a <= b
    /\ IF g.variant = "Base" THEN dw_a = 0 /\ dw_b = 0
       ELSE DrawsWindows(g) => dw_a <= dw_b
    /\ Len(rng) >= Needed(g.variant, g.T)
    /\ gen' = [gen EXCEPT ![i] =
                 IF g.variant = "Base"
                 THEN GenerateBase(g, a, b, rng, Provenance(a, b, dw_a, dw_b))
                 ELSE GenerateTW(g, a, b, dw_a, dw_b, rng, Provenance(a, b, dw_a, dw_b))]
    /\ rng' = Drop(rng, Needed(g.variant, g.T))
    /\ pending' = NoSeed

\* generate(a, b, ...) with a > b: the first rd.randint(a, b) raises ValueError.
RaiseAtFirstDraw(i, a, b, dw_a, dw_b) ==
    /\ a > b
    /\ gen[i].variant = "Base" => dw_a = 0 /\ dw_b = 0
    /\ UNCHANGED <<gen, rng>>
    /\ pending' = NoSeed

\* generate(a, b, dw_a, dw_b) with a <= b and dw_a > dw_b on a time-window
\* instance: h, p and s are sampled and assigned, then the first
\* rd.randint(dw_a, dw_b) raises ValueError.
RaiseAtWindowDraw(i, a, b, dw_a, dw_b) ==
    LET g == gen[i] IN
    /\ a <= b
    /\ dw_a > dw_b
    /\ DrawsWindows(g)
    /\ Len(rng) >= 3 * g.T
    /\ gen' = [gen EXCEPT ![i] =
                 [g EXCEPT !.done = FALSE,
                           !.h = SampleVec(g.T, a, b, rng, 0),
                           !.p = SampleVec(g.T, a, b, rng, g.T),
                           !.s = SampleVec(g.T, a, b, rng, 2 * g.T)]]
    /\ rng' = Drop(rng, 3 * g.T)
    /\ pending' = NoSeed

\* Faulty variant of Seed: rd.seed is never called.
SeedIgnored(i, v) ==
    /\ rng' = rng
    /\ pending' = SeedCalled(v)
    /\ UNCHANGED gen

\* seed(a): "if a: rd.seed(a)".
Seed(i, v) ==
    /\ rng' = IF Truthy(v) THEN StreamOf(v.n, 2 * Needed(gen[i].variant, gen[i].T))
              ELSE rng
    /\ pending' = SeedCalled(v)
    /\ UNCHANGED gen

----------------------------------------------------------------------------
\* Specifications.

\* One instance of any variant and horizon; the source in the state the
\* interpreter left it in. Every operation may be called, with any argument.
Init ==
    \E variant \in Variants, T \in 1..MaxT :
        /\ gen = [i \in 1..1 |-> NewInstance(variant, T)]
        /\ rng = StreamOf(MaxSeed + 1, 2 * Needed(variant, T))
        /\ pending = NoSeed

Next ==
    \E i \in DOMAIN gen :
        \/ \E v \in SeedArgs : Seed(i, v)
        \/ \E ab, dw \in BoundPairs : Generate(i, ab[1], ab[2], dw[1], dw[2])
        \/ \E ab, dw \in BoundPairs : RaiseAtFirstDraw(i, ab[1], ab[2], dw[1], dw[2])
        \/ \E ab, dw \in BoundPairs : RaiseAtWindowDraw(i, ab[1], ab[2], dw[1], dw[2])

Spec == Init /\ [][Next]_vars

\* Two instances of one variant and horizon that seed the shared source and
\* generate with (a, b) = (0, 1) or (1, 2) and, for the time-window variants,
\* (dw_a, dw_b) = (0, 1).
InitPair ==
    \E variant \in Variants, T \in 1..MaxT :
        /\ gen = [i \in 1..2 |-> NewInstance(variant, T)]
        /\ rng = StreamOf(MaxSeed + 1, 2 * Needed(variant, T))
        /\ pending = NoSeed

NextPair ==
    \E i \in DOMAIN gen :
        \/ \E v \in SeedArgs : Seed(i, v)
        \/ \E ab \in {<<0, 1>>, <<1, 2>>} :
              Generate(i, ab[1], ab[2], 0, IF gen[i].variant = "Base" THEN 0 ELSE 1)

SpecPair == InitPair /\ [][NextPair]_vars

\* One instance; the source is about to return any stream of Tapes.
InitDraws ==
    \E variant \in Variants, T \in 1..MaxT :
        /\ gen = [i \in 1..1 |-> NewInstance(variant, T)]
        /\ rng \in Tapes(Needed(variant, T))
        /\ pending = NoSeed

NextDraws ==
    \E i \in DOMAIN gen :
        \/ \E ab, dw \in BoundPairs : Generate(i, ab[1], ab[2], dw[1], dw[2])
        \/ \E ab, dw \in BoundPairs : RaiseAtFirstDraw(i, ab[1], ab[2], dw[1], dw[2])
        \/ \E ab, dw \in BoundPairs : RaiseAtWindowDraw(i, ab[1], ab[2], dw[1], dw[2])

SpecDraws == InitDraws /\ [][NextDraws]_vars

\* The streams that vary in the window draws of generate() alone: at most
\* MaxActive of these raw outputs differ from 0, every other one is 0.
WindowTapes(T) ==
    {[n \in 1..Needed("NCS", T) |->
         IF 3 * T < n /\ n <= 3 * T + NumOffDiag(T) THEN t[n - 3 * T] ELSE 0] :
       t \in TapesK(NumOffDiag(T), MaxActive)}

\* One GeneratorTW_NCS instance on horizons up to MaxWinT, capacities
\* sampled from [0, 0], any window demand.
InitWindows ==
    \E T \in 1..MaxWinT :
        /\ gen = [i \in 1..1 |-> NewInstance("NCS", T)]
        /\ rng \in WindowTapes(T)
        /\ pending = NoSeed

NextWindows ==
    \E i \in DOMAIN gen, dw \in BoundPairs : Generate(i, 0, 0, dw[1], dw[2])

SpecWindows == InitWindows /\ [][NextWindows]_vars

----------------------------------------------------------------------------
\* Properties.

RECURSIVE SumOver(_, _)
SumOver(S, f) ==
    IF S = {} THEN 0
    ELSE LET x == CHOOSE y \in S : TRUE IN f[x] + SumOver(S \ {x}, f)

\* Window (t3,t4) lies strictly inside window (t1,t2).
StrictlyInside(inner, outer) == outer[1] < inner[1] /\ inner[2] < outer[2]

TimeWindowed(g) == g.variant \in {"CS", "NCS"}

\* The iterations of the repair loop of g that raised some capacity.
Raising(g) == {n \in 1..(Len(g.Clog) - 1) : g.Clog[n + 1] # g.Clog[n]}

\* C1. Interval feasibility: in the dataset left by a completed generate() of
\* GeneratorTW_CS or GeneratorTW_NCS, for all 0 <= t1 <= t2 <= T-1 the
\* capacity of the periods t1..t2 is at least the demand of the windows that
\* lie within [t1, t2].
C1_IntervalFeasible ==
    \A i \in DOMAIN gen :
        LET g == gen[i] IN
        (g.done /\ TimeWindowed(g)) =>
            \A t1, t2 \in Periods(g.T) :
                t1 <= t2 =>
                    SumOver(t1..t2, g.C) >=
                    SumOver({w \in DOMAIN g.d_w : t1 <= w[1] /\ w[2] <= t2}, g.d_w)

\* A scan that repaired an interval and later repaired another one.
C1_Witness ==
    \E i \in DOMAIN gen :
        gen[i].done /\ TimeWindowed(gen[i]) /\ Cardinality(Raising(gen[i])) >= 2

\* C2. Base feasibility: after a completed Generator.generate(a, b),
\* C[t] >= d[t] for every period t.
C2_BaseFeasible ==
    \A i \in DOMAIN gen :
        LET g == gen[i] IN
        (g.done /\ g.variant = "Base") => \A t \in Periods(g.T) : g.C[t] >= g.d[t]

\* A base dataset whose capacity was repaired.
C2_Witness ==
    \E i \in DOMAIN gen :
        gen[i].done /\ gen[i].variant = "Base" /\ gen[i].C # gen[i].C0

\* C3. After a completed GeneratorTW_NCS.generate(), any two windows with
\* nonzero demand are componentwise ordered: no window with nonzero demand
\* lies strictly inside another one.
C3_NoStrictContainment ==
    \A i \in DOMAIN gen :
        LET g == gen[i] IN
        (g.done /\ g.variant = "NCS") =>
            \A w1, w2 \in DOMAIN g.d_w :
                (g.d_w[w1] # 0 /\ g.d_w[w2] # 0) =>
                    \/ (w1[1] <= w2[1] /\ w1[2] <= w2[2])
                    \/ (w1[1] >= w2[1] /\ w1[2] >= w2[2])

\* Pruning zeroed a window and left at least two windows with demand.
C3_Witness ==
    \E i \in DOMAIN gen :
        LET g == gen[i] IN
        /\ g.done /\ g.variant = "NCS"
        /\ g.d_w # g.dw0
        /\ Cardinality({w \in DOMAIN g.d_w : g.d_w[w] # 0}) >= 2

\* C4. Aggregation: after a completed generate() of a time-window variant,
\* d[t] is the sum of the final d_w[(t1,t)] over t1 in 0..t.
C4_Aggregation ==
    \A i \in DOMAIN gen :
        LET g == gen[i] IN
        (g.done /\ TimeWindowed(g)) =>
            \A t \in Periods(g.T) :
                g.d[t] = SumOver({w \in DOMAIN g.d_w : w[2] = t}, g.d_w)

\* An NCS dataset with a pruned window and a period that aggregates two
\* windows with demand.
C4_Witness ==
    \E i \in DOMAIN gen :
        LET g == gen[i] IN
        /\ g.done /\ g.variant = "NCS"
        /\ g.d_w # g.dw0
        /\ \E t \in Periods(g.T) :
              Cardinality({w \in DOMAIN g.d_w : w[2] = t /\ g.d_w[w] # 0}) >= 2

InBounds(g, x) == g.by.dw_a <= x /\ x <= g.by.dw_b

\* C5 as stated. In the d_w of both time-window variants every d_w[(i,j)]
\* with i # j lies in [dw_a, dw_b], and d_w[(i,i)] = 0.
C5_Original ==
    \A i \in DOMAIN gen :
        LET g == gen[i] IN
        (g.done /\ TimeWindowed(g)) =>
            \A w \in DOMAIN g.d_w :
                IF w[1] = w[2] THEN g.d_w[w] = 0 ELSE InBounds(g, g.d_w[w])

\* C5 amended. Every d_w[(i,j)] with i # j is sampled in [dw_a, dw_b]; the
\* final value is the sampled one, except that GeneratorTW_NCS leaves 0 in a
\* window its pruning zeroed; d_w[(i,i)] = 0.
C5_WindowBounds ==
    \A i \in DOMAIN gen :
        LET g == gen[i] IN
        (g.done /\ TimeWindowed(g)) =>
            \A w \in DOMAIN g.d_w :
                IF w[1] = w[2] THEN g.d_w[w] = 0
                ELSE /\ InBounds(g, g.dw0[w])
                     /\ \/ g.d_w[w] = g.dw0[w]
                        \/ g.variant = "NCS" /\ g.d_w[w] = 0

\* An NCS dataset generated with dw_a >= 1 in which pruning zeroed a window.
C5_Witness ==
    \E i \in DOMAIN gen :
        LET g == gen[i] IN
        /\ g.done /\ g.variant = "NCS" /\ g.by.dw_a >= 1
        /\ \E w \in DOMAIN g.d_w : w[1] # w[2] /\ g.d_w[w] = 0

\* Two instances hold the datasets of two executions of seed(v) followed by
\* generate(...) with the same v and the same arguments.
SameExecution(g1, g2) ==
    g1.done /\ g2.done /\ g1.by.seed.called /\ g1.by = g2.by

\* C6 as stated. For every value v that seed() accepts, two executions of
\* seed(v) followed by generate(...) with the same arguments leave identical
\* datasets.
C6_Original ==
    \A i, j \in DOMAIN gen :
        SameExecution(gen[i], gen[j]) => Dataset(gen[i]) = Dataset(gen[j])

\* C6 amended. For every truthy value v (not None, not 0), two executions of
\* seed(v) followed by generate(...) with the same arguments leave identical
\* datasets, whatever the source returned before. (The executions compared
\* are those of the two instances; two executions on one instance are each
\* compared with the execution the other instance holds.)
C6_Determinism ==
    \A i, j \in DOMAIN gen :
        (SameExecution(gen[i], gen[j]) /\ Truthy(gen[i].by.seed.v)) =>
            Dataset(gen[i]) = Dataset(gen[j])

\* Both instances hold the dataset of an execution of seed(v); generate(...)
\* with the same truthy v and the same arguments, on a horizon of at least
\* two periods.
C6_Witness ==
    /\ SameExecution(gen[1], gen[2])
    /\ Truthy(gen[1].by.seed.v)
    /\ gen[1].T >= 2

\* A generate() call on instance i with these arguments, whatever its outcome.
GenerateCall(i, a, b, dw_a, dw_b) ==
    \/ Generate(i, a, b, dw_a, dw_b)
    \/ RaiseAtFirstDraw(i, a, b, dw_a, dw_b)
    \/ RaiseAtWindowDraw(i, a, b, dw_a, dw_b)

InvalidArgs(g, a, b, dw_a, dw_b) == a > b \/ (TimeWindowed(g) /\ dw_a > dw_b)

\* C7. A generate() call with an invalid bound pair on a generator that holds
\* the dataset of an earlier completed generate() changes none of h, p, s,
\* d_w, C, d and does not advance the random source.
C7_NoPartialDataset ==
    [][\A i \in DOMAIN gen : \A ab, dw \in BoundPairs :
          (/\ gen[i].done
           /\ InvalidArgs(gen[i], ab[1], ab[2], dw[1], dw[2])
           /\ GenerateCall(i, ab[1], ab[2], dw[1], dw[2]))
          => (gen' = gen /\ rng' = rng)]_vars

\* C8. Every iteration of the repair loop of the three variants leaves each
\* C[k] at least as large as before it, so the final C[k] is at least the
\* sampled C[k].
C8_CapacityOnlyGrows ==
    \A i \in DOMAIN gen :
        LET g == gen[i] IN
        g.done =>
            /\ \A n \in 1..(Len(g.Clog) - 1) : \A k \in Periods(g.T) :
                  g.Clog[n + 1][k] >= g.Clog[n][k]
            /\ \A k \in Periods(g.T) : g.C[k] >= g.C0[k]

\* An NCS dataset in which repair raised a capacity above the sampled one.
C8_Witness ==
    \E i \in DOMAIN gen :
        LET g == gen[i] IN
        /\ g.done /\ g.variant = "NCS"
        /\ \E k \in Periods(g.T) : g.C[k] > g.C0[k]

\* The d_w of the two-phase algorithm over the sampled values dw0.
TwoPhase(dw0) ==
    [w \in DOMAIN dw0 |->
        IF \E c \in DOMAIN dw0 : dw0[c] # 0 /\ StrictlyInside(w, c) THEN 0 ELSE dw0[w]]

\* C9. The single-pass pruning of GeneratorTW_NCS.generate() leaves the d_w
\* of the two-phase algorithm over the sampled values, and every zeroing
\* step zeroes the inner window of the compared pair.
C9_PruningIsTwoPhase ==
    \A i \in DOMAIN gen :
        LET g == gen[i] IN
        (g.done /\ g.variant = "NCS") =>
            /\ g.d_w = TwoPhase(g.dw0)
            /\ \A n \in 1..Len(g.zlog) : StrictlyInside(g.zlog[n][2], g.zlog[n][1])

\* Three windows sampled with demand, nested in one another, were pruned.
C9_Witness ==
    \E i \in DOMAIN gen :
        LET g == gen[i] IN
        /\ g.done /\ g.variant = "NCS"
        /\ \E w1, w2, w3 \in DOMAIN g.dw0 :
              /\ g.dw0[w1] # 0 /\ g.dw0[w2] # 0 /\ g.dw0[w3] # 0
              /\ StrictlyInside(w2, w1) /\ StrictlyInside(w3, w2)

\* C10. In the repair loop of Generator.generate() each C[k] is increased at
\* most once, and the final C is the point-wise pass over the sampled values:
\* C[k] = C0[k] + d[k] if C0[k] < d[k], else C0[k].
C10_PointwiseOnce ==
    \A i \in DOMAIN gen :
        LET g == gen[i] IN
        (g.done /\ g.variant = "Base") =>
            \A k \in Periods(g.T) :
                /\ Cardinality({n \in 1..(Len(g.Clog) - 1) :
                                  g.Clog[n + 1][k] # g.Clog[n][k]}) <= 1
                /\ g.C[k] = IF g.C0[k] < g.d[k] THEN g.C0[k] + g.d[k] ELSE g.C0[k]

\* A base dataset on a horizon of at least two periods in which period 0,
\* visited by every pass of the outer loop, was repaired.
C10_Witness ==
    \E i \in DOMAIN gen :
        LET g == gen[i] IN
        g.done /\ g.variant = "Base" /\ g.T >= 2 /\ g.C[0] > g.C0[0]

====
